---- MODULE Spec2Model ----
(***************************************************************************)
(* ODP packet descriptor (platform/linux-generic/include/api/odp_packet.h) *)
(* The header declares the packet API and documents each call's contract;  *)
(* the model follows those contracts call by call.  A packet is a chain of *)
(* fixed-capacity segments taken from a buffer pool, each with a movable   *)
(* data window (headroom, data, tailroom), plus packet-level metadata:     *)
(* cached length, l2/l3/l4 offsets and the user context slot.  mem is the  *)
(* content of the storage blocks, byte by byte.                             *)
(***************************************************************************)
EXTENDS Integers, Sequences, FiniteSets, TLC

VARIABLES pool_free, pkt, seg, last, mem

vars == <<pool_free, pkt, seg, last, mem>>

(* ------------------------------ bounds -------------------------------- *)

\* capacity (seg_size) of every storage block of the pools
SegCap == 3

\* default headroom (ODP_CONFIG_PACKET_HEADROOM), scaled down
HEADROOM == 1

(* --------------------------- sentinels, types ------------------------- *)

ODP_PACKET_OFFSET_INVALID == 268435455

ODP_PACKET_INVALID == 0

ODP_PACKET_SEG_INVALID == 0

NULL == 0

\* pools: p1 hands out single-segment storage, p2 pre-segmented storage of
\* two segments, raw is a pool that was not created with
\* ODP_BUFFER_TYPE_PACKET
Pools == {"p1", "p2", "raw"}

PoolBlocks(pool) ==
    CASE pool = "p1" -> {1}
      [] pool = "p2" -> {2, 3}
      [] OTHER       -> {4}

PoolSegs(pool) == IF pool = "p2" THEN 2 ELSE 1

\* seg_size of the blocks of a pool; the pre-segmented pool has the
\* smaller blocks
PoolSegSize(pool) == IF pool = "p2" THEN SegCap - 1 ELSE SegCap

PoolIsPacket(pool) == pool # "raw"

Blocks == UNION {PoolBlocks(p) : p \in Pools}

PoolOf(b) == CHOOSE p \in Pools : b \in PoolBlocks(p)

\* a packet handle is the index of the buffer that heads its chain
Handles == Blocks

\* buffer handles are the same indices in a range of their own
BufTag == 16

BufferHandles == {b + BufTag : b \in Blocks}

Layers == {"l2", "l3", "l4"}

Min(a, b) == IF a < b THEN a ELSE b

NoSeg == [head |-> 0, len |-> 0]

NoPkt == [valid |-> FALSE, chain |-> <<>>, len |-> 0,
          l2 |-> 0, l3 |-> 0, l4 |-> 0, ctx |-> 0]

NoCall == [op |-> "none", pkt |-> 0, seg |-> 0, arg |-> 0, ret |-> 0,
           pre |-> NoSeg, rt |-> FALSE]

Call(op, h, s, arg, ret, pre, rt) ==
    [op |-> op, pkt |-> h, seg |-> s, arg |-> arg, ret |-> ret,
     pre |-> pre, rt |-> rt]

(* ------------------------------ accessors ----------------------------- *)

\* whether h names a valid packet among the descriptors p
IsValidIn(p, h) == IF h \in Handles /\ p[h].valid THEN 1 ELSE 0

odp_packet_is_valid(h) == IsValidIn(pkt, h)

Live == {h \in Handles : pkt[h].valid}

odp_packet_get_len(h) == pkt[h].len

odp_packet_seg_count(h) == Len(pkt[h].chain)

odp_packet_is_segmented(h) == IF odp_packet_seg_count(h) > 1 THEN 1 ELSE 0

\* segment by index, 0 ... seg_count-1
odp_packet_seg(h, index) ==
    IF index >= 0 /\ index <= odp_packet_seg_count(h) - 1
    THEN pkt[h].chain[index + 1]
    ELSE ODP_PACKET_SEG_INVALID

\* a successor that goes round from the last segment to the first
SegNextWraps(h, s) ==
    IF \E i \in 1..Len(pkt[h].chain) : pkt[h].chain[i] = s
    THEN LET i == CHOOSE k \in 1..Len(pkt[h].chain) : pkt[h].chain[k] = s
         IN  pkt[h].chain[(i % Len(pkt[h].chain)) + 1]
    ELSE ODP_PACKET_SEG_INVALID

\* the segment that follows s in the chain of h
odp_packet_seg_next(h, s) ==
    IF \E i \in 1..(Len(pkt[h].chain) - 1) : pkt[h].chain[i] = s
    THEN LET i == CHOOSE k \in 1..(Len(pkt[h].chain) - 1) :
                      pkt[h].chain[k] = s
         IN  pkt[h].chain[i + 1]
    ELSE ODP_PACKET_SEG_INVALID

\* segment addresses are fixed; blocks do not overlap
odp_packet_seg_addr(s) == s * (SegCap + 1)

odp_packet_seg_size(s) == PoolSegSize(PoolOf(s))

odp_packet_seg_data_len(sg, s) == sg[s].len

odp_packet_seg_headroom(sg, s) == sg[s].head

odp_packet_seg_tailroom(sg, s) ==
    odp_packet_seg_size(s) - odp_packet_seg_headroom(sg, s)
        - odp_packet_seg_data_len(sg, s)

odp_packet_seg_data(sg, s) ==
    odp_packet_seg_addr(s) + odp_packet_seg_headroom(sg, s)

RECURSIVE SumLen(_, _)
SumLen(sg, chain) ==
    IF chain = <<>> THEN 0
    ELSE sg[Head(chain)].len + SumLen(sg, Tail(chain))

RECURSIVE SumSeq(_)
SumSeq(caps) == IF caps = <<>> THEN 0 ELSE Head(caps) + SumSeq(Tail(caps))

ChainCaps(chain) == [i \in 1..Len(chain) |-> odp_packet_seg_size(chain[i])]

odp_packet_buf_len(h) == SumSeq(ChainCaps(pkt[h].chain))

\* the current packet data pointer: the data start of the first segment
odp_packet_data(h) == odp_packet_seg_data(seg, pkt[h].chain[1])

\* what a layer pointer call sees of a chain: per segment the data address
\* and the data length
SegViews(sg, chain) ==
    [i \in 1..Len(chain) |->
        [data |-> odp_packet_seg_data(sg, chain[i]),
         len  |-> odp_packet_seg_data_len(sg, chain[i])]]

\* the walk over the chain that resolves packet offset off: the address of
\* the byte and the number of data bytes left in its segment; NULL when
\* the chain holds no byte at off
RECURSIVE PtrWalk(_, _)
PtrWalk(views, off) ==
    IF views = <<>> THEN [ptr |-> NULL, rem |-> 0]
    ELSE IF off < Head(views).len
         THEN [ptr |-> Head(views).data + off, rem |-> Head(views).len - off]
         ELSE PtrWalk(Tail(views), off - Head(views).len)

LayerPtr(h, off) ==
    IF off = ODP_PACKET_OFFSET_INVALID THEN [ptr |-> NULL, rem |-> 0]
    ELSE PtrWalk(SegViews(seg, pkt[h].chain), off)

odp_packet_l2_ptr(h) == LayerPtr(h, pkt[h].l2)

odp_packet_l3_ptr(h) == LayerPtr(h, pkt[h].l3)

odp_packet_l4_ptr(h) == LayerPtr(h, pkt[h].l4)

\* the bytes of a packet: the data windows of its segments, in chain order
RECURSIVE PacketBytes(_, _, _)
PacketBytes(sg, m, chain) ==
    IF chain = <<>> THEN <<>>
    ELSE LET s == Head(chain)
         IN  SubSeq(m[s], sg[s].head + 1, sg[s].head + sg[s].len)
                 \o PacketBytes(sg, m, Tail(chain))

(* ----------------------- segment window arithmetic -------------------- *)

SegTailroom(cap, s) == cap - s.head - s.len

\* a push that moves the data address and keeps the data length
PushHeadKeepsLen(s, n) ==
    IF n <= s.head
    THEN [ok |-> TRUE, seg |-> [head |-> s.head - n, len |-> s.len]]
    ELSE [ok |-> FALSE, seg |-> s]

\* seg_data -= len; seg_data_len += len; len in 0 ... seg_headroom
PushHead(s, n) ==
    IF n <= s.head
    THEN [ok |-> TRUE, seg |-> [head |-> s.head - n, len |-> s.len + n]]
    ELSE [ok |-> FALSE, seg |-> s]

\* a pull that shortens the data without moving the data address
PullHeadKeepsAddress(s, n) ==
    IF n <= s.len
    THEN [ok |-> TRUE, seg |-> [head |-> s.head, len |-> s.len - n]]
    ELSE [ok |-> FALSE, seg |-> s]

\* seg_data += len; seg_data_len -= len; len in 0 ... seg_data_len
PullHead(s, n) ==
    IF n <= s.len
    THEN [ok |-> TRUE, seg |-> [head |-> s.head + n, len |-> s.len - n]]
    ELSE [ok |-> FALSE, seg |-> s]

\* a push that accepts one byte more than the tailroom
PushTailOffByOne(cap, s, n) ==
    IF n <= SegTailroom(cap, s) + 1
    THEN [ok |-> TRUE, seg |-> [head |-> s.head, len |-> s.len + n]]
    ELSE [ok |-> FALSE, seg |-> s]

\* seg_data_len += len; len in 0 ... seg_tailroom
PushTail(cap, s, n) ==
    IF n <= SegTailroom(cap, s)
    THEN [ok |-> TRUE, seg |-> [head |-> s.head, len |-> s.len + n]]
    ELSE [ok |-> FALSE, seg |-> s]

\* a tail pull that moves the data address as a head pull does
PullTailMovesHead(s, n) ==
    IF n <= s.len
    THEN [ok |-> TRUE, seg |-> [head |-> s.head + n, len |-> s.len - n]]
    ELSE [ok |-> FALSE, seg |-> s]

\* seg_data_len -= len; len in 0 ... seg_data_len
PullTail(s, n) ==
    IF n <= s.len
    THEN [ok |-> TRUE, seg |-> [head |-> s.head, len |-> s.len - n]]
    ELSE [ok |-> FALSE, seg |-> s]

\* "Packet length is used to initialize pointers and lengths": the data
\* starts after the default headroom of the first segment and fills the
\* chain in order.
RECURSIVE ResetLayout(_, _, _)

\* a layout that starts the data at the segment start address
ResetLayoutNoHeadroom(caps, headroom, len) ==
    IF caps = <<>> THEN <<>>
    ELSE LET n == Min(len, Head(caps))
         IN  <<[head |-> 0, len |-> n]>>
                 \o ResetLayout(Tail(caps), 0, len - n)

ResetLayout(caps, headroom, len) ==
    IF caps = <<>> THEN <<>>
    ELSE LET n == Min(len, Head(caps) - headroom)
         IN  <<[head |-> headroom, len |-> n]>>
                 \o ResetLayout(Tail(caps), 0, len - n)

\* a length check that lets len equal to capacity minus headroom through
ResetFitsOffByOne(caps, headroom, len) == len <= SumSeq(caps) - headroom

\* reset: len "must be less than the total buffer length of the packet
\* minus the default headroom length"
ResetFits(caps, headroom, len) == len < SumSeq(caps) - headroom

\* metadata zeroed instead of set to the defaults
DefaultMetaZeroed(chain, len) ==
    [valid |-> TRUE, chain |-> chain, len |-> len,
     l2 |-> 0, l3 |-> 0, l4 |-> 0, ctx |-> 0]

\* metadata defaults: l2 at offset 0, l3/l4 not found, context cleared
DefaultMeta(chain, len) ==
    [valid |-> TRUE, chain |-> chain, len |-> len,
     l2 |-> 0, l3 |-> ODP_PACKET_OFFSET_INVALID,
     l4 |-> ODP_PACKET_OFFSET_INVALID, ctx |-> 0]

\* a layout that also clears every segment outside the chain
WithLayoutShared(sg, chain, lay) ==
    [b \in Blocks |->
        IF \E i \in 1..Len(chain) : chain[i] = b
        THEN lay[CHOOSE i \in 1..Len(chain) : chain[i] = b]
        ELSE NoSeg]

\* seg with the blocks of chain laid out as lay
WithLayout(sg, chain, lay) ==
    [b \in Blocks |->
        IF \E i \in 1..Len(chain) : chain[i] = b
        THEN lay[CHOOSE i \in 1..Len(chain) : chain[i] = b]
        ELSE sg[b]]

\* the number of data bytes that layout lay holds before its segment i
RECURSIVE LayoutStart(_, _)
LayoutStart(lay, i) ==
    IF i <= 1 THEN 0 ELSE lay[i - 1].len + LayoutStart(lay, i - 1)

\* byte i of a run of bytes; past its end there is no packet data to read
ByteAt(bytes, i) == IF i <= Len(bytes) THEN bytes[i] ELSE 0

\* a store that starts again at the first byte in every segment
WriteBytesPerSegment(m, chain, lay, bytes) ==
    [b \in Blocks |->
        IF \E i \in 1..Len(chain) : chain[i] = b
        THEN LET i == CHOOSE k \in 1..Len(chain) : chain[k] = b
             IN  [j \in 1..Len(m[b]) |->
                     IF j > lay[i].head /\ j <= lay[i].head + lay[i].len
                     THEN ByteAt(bytes, j - lay[i].head)
                     ELSE m[b][j]]
        ELSE m[b]]

\* m with bytes stored, in order, into the data windows that layout lay
\* gives the blocks of chain; every other byte of m stays
WriteBytes(m, chain, lay, bytes) ==
    [b \in Blocks |->
        IF \E i \in 1..Len(chain) : chain[i] = b
        THEN LET i == CHOOSE k \in 1..Len(chain) : chain[k] = b
             IN  [j \in 1..Len(m[b]) |->
                     IF j > lay[i].head /\ j <= lay[i].head + lay[i].len
                     THEN ByteAt(bytes, LayoutStart(lay, i) + j - lay[i].head)
                     ELSE m[b][j]]
        ELSE m[b]]

\* a setter that stores any offset
OffsetOkUnchecked(h, off) == TRUE

\* a setter that accepts an offset equal to the packet length
OffsetOkOffByOne(h, off) == off <= odp_packet_get_len(h)

\* offset setters: offset in 0 ... odp_packet_len()-1
OffsetOk(h, off) == off < odp_packet_get_len(h)

(* ------------------------------- inputs ------------------------------- *)

LenInputs == 0..SegCap

SegLenInputs == 0..(SegCap + 1)

OffInputs == 0..(2 * SegCap)

CtxInputs == {1, 2}

\* the pool hands out its free blocks lowest first: the chain of the k
\* lowest blocks of fr
RECURSIVE TakeBlocks(_, _)
TakeBlocks(fr, k) ==
    IF k = 0 THEN <<>>
    ELSE LET b == CHOOSE x \in fr : \A y \in fr : x <= y
         IN  <<b>> \o TakeBlocks(fr \ {b}, k - 1)

(* ------------------------------ operations ---------------------------- *)

\* storage in which every byte holds its own address, so that no two bytes
\* are alike
AddrMem ==
    [b \in Blocks |->
        [j \in 1..odp_packet_seg_size(b) |-> odp_packet_seg_addr(b) + j - 1]]

\* zero-filled storage
ZeroMem == [b \in Blocks |-> [j \in 1..odp_packet_seg_size(b) |-> 0]]

\* the pools as created: all their blocks free, no packet allocated, the
\* storage holding m
InitPools(populated, m) ==
    /\ pool_free = [p \in Pools |->
                       IF p \in populated THEN PoolBlocks(p) ELSE {}]
    /\ pkt = [h \in Handles |-> NoPkt]
    /\ seg = [b \in Blocks |-> NoSeg]
    /\ last = NoCall
    /\ mem = m

\* one packet pool in use at a time, next to the pool of raw buffers
Init == \E p \in {"p1", "p2"} : InitPools({p, "raw"}, AddrMem)

\* all pools in use, over zero-filled storage
InitAll == InitPools(Pools, ZeroMem)

\* all pools in use, over storage of distinct bytes
InitCopy == InitPools(Pools, AddrMem)

\* an allocation that does not look at the type of the pool
AllocOkAnyPool(pool, len) ==
    /\ Cardinality(pool_free[pool]) >= PoolSegs(pool)
    /\ ResetFits([i \in 1..PoolSegs(pool) |-> PoolSegSize(pool)],
                 HEADROOM, len)

AllocOk(pool, len) ==
    /\ PoolIsPacket(pool)
    /\ Cardinality(pool_free[pool]) >= PoolSegs(pool)
    /\ ResetFits([i \in 1..PoolSegs(pool) |-> PoolSegSize(pool)],
                 HEADROOM, len)

odp_packet_alloc(pool, len) ==
    IF AllocOk(pool, len)
    THEN LET chain == TakeBlocks(pool_free[pool], PoolSegs(pool))
             h == chain[1]
         IN     /\ pool_free' = [pool_free EXCEPT ![pool] =
                                    @ \ {chain[i] : i \in 1..Len(chain)}]
                /\ pkt' = [pkt EXCEPT ![h] = DefaultMeta(chain, len)]
                /\ seg' = WithLayout(seg, chain,
                              ResetLayout(ChainCaps(chain), HEADROOM, len))
                /\ last' = Call("alloc", h, 0, len, h, NoSeg, FALSE)
                /\ UNCHANGED mem
    ELSE /\ UNCHANGED <<pool_free, pkt, seg, mem>>
         /\ last' = Call("alloc", 0, 0, len, ODP_PACKET_INVALID, NoSeg, FALSE)

\* a release that hands the storage back and leaves the descriptor valid
FreeKeepsValid(h) ==
    /\ h \in Live
    /\ pool_free' = [pool_free EXCEPT ![PoolOf(h)] =
                        @ \cup {pkt[h].chain[i] : i \in 1..Len(pkt[h].chain)}]
    /\ last' = Call("free", h, 0, 0, 0, NoSeg, FALSE)
    /\ UNCHANGED <<pkt, seg, mem>>

odp_packet_free(h) ==
    /\ h \in Live
    /\ pool_free' = [pool_free EXCEPT ![PoolOf(h)] =
                        @ \cup {pkt[h].chain[i] : i \in 1..Len(pkt[h].chain)}]
    /\ seg' = WithLayout(seg, pkt[h].chain,
                         [i \in 1..Len(pkt[h].chain) |-> NoSeg])
    /\ pkt' = [pkt EXCEPT ![h] = NoPkt]
    /\ last' = Call("free", h, 0, 0, 0, NoSeg, FALSE)
    /\ UNCHANGED mem

odp_packet_reset(h, len) ==
    /\ h \in Live
    /\ IF ResetFits(ChainCaps(pkt[h].chain), HEADROOM, len)
       THEN /\ pkt' = [pkt EXCEPT ![h] = DefaultMeta(pkt[h].chain, len)]
            /\ seg' = WithLayout(seg, pkt[h].chain,
                          ResetLayout(ChainCaps(pkt[h].chain), HEADROOM, len))
            /\ last' = Call("reset", h, 0, len, 0, NoSeg, FALSE)
       ELSE /\ UNCHANGED <<pkt, seg>>
            /\ last' = Call("reset", h, 0, len, -1, NoSeg, FALSE)
    /\ UNCHANGED <<pool_free, mem>>

\* raw setter of the packet length: segments are not touched
odp_packet_set_len(h, len) ==
    /\ h \in Live
    /\ pkt' = [pkt EXCEPT ![h].len = len]
    /\ last' = Call("set_len", h, 0, len, 0, NoSeg, FALSE)
    /\ UNCHANGED <<pool_free, seg, mem>>

OffsetSet(h, layer, off) ==
    /\ h \in Live
    /\ IF OffsetOk(h, off)
       THEN /\ pkt' = [pkt EXCEPT ![h][layer] = off]
            /\ last' = Call(layer \o "_offset_set", h, 0, off, 0, NoSeg, FALSE)
       ELSE /\ UNCHANGED pkt
            /\ last' = Call(layer \o "_offset_set", h, 0, off, -1, NoSeg,
                            FALSE)
    /\ UNCHANGED <<pool_free, seg, mem>>

odp_packet_l2_offset_set(h, off) == OffsetSet(h, "l2", off)

odp_packet_l3_offset_set(h, off) == OffsetSet(h, "l3", off)

odp_packet_l4_offset_set(h, off) == OffsetSet(h, "l4", off)

odp_packet_l2_offset(h) == pkt[h].l2

odp_packet_l3_offset(h) == pkt[h].l3

odp_packet_l4_offset(h) == pkt[h].l4

\* the setter replaces a stored context by a different one
Overwrites(h, ctx) == pkt[h].ctx # 0 /\ pkt[h].ctx # ctx

\* one slot for both views of the user context
odp_packet_user_ptr_set(h, ctx) ==
    /\ h \in Live
    /\ pkt' = [pkt EXCEPT ![h].ctx = ctx]
    /\ last' = Call("user_ptr_set", h, 0, ctx, 0, NoSeg, Overwrites(h, ctx))
    /\ UNCHANGED <<pool_free, seg, mem>>

\* a setter that keeps a context that is already stored
UserU64SetFirstWins(h, ctx) ==
    /\ h \in Live
    /\ pkt' = [pkt EXCEPT ![h].ctx = IF @ = 0 THEN ctx ELSE @]
    /\ last' = Call("user_u64_set", h, 0, ctx, 0, NoSeg, Overwrites(h, ctx))
    /\ UNCHANGED <<pool_free, seg, mem>>

odp_packet_user_u64_set(h, ctx) ==
    /\ h \in Live
    /\ pkt' = [pkt EXCEPT ![h].ctx = ctx]
    /\ last' = Call("user_u64_set", h, 0, ctx, 0, NoSeg, Overwrites(h, ctx))
    /\ UNCHANGED <<pool_free, seg, mem>>

odp_packet_user_ptr(h) == pkt[h].ctx

odp_packet_user_u64(h) == pkt[h].ctx

\* a conversion that hands the buffer handle on as it is
FromBufferUntagged(buf) == buf

\* the two handle types name the same storage: the conversions change the
\* type of the handle and nothing else
odp_packet_from_buffer(buf) == buf - BufTag

odp_packet_to_buffer(h) == h + BufTag

\* a call of odp_packet_from_buffer on a buffer of a packet pool
FromBuffer(buf) ==
    /\ buf \in BufferHandles
    /\ PoolIsPacket(PoolOf(buf - BufTag))
    /\ LET h == odp_packet_from_buffer(buf)
       IN  last' = Call("from_buffer", h, 0, buf, h, NoSeg, FALSE)
    /\ UNCHANGED <<pool_free, pkt, seg, mem>>

\* a call of odp_packet_to_buffer on a valid packet
ToBuffer(h) ==
    /\ h \in Live
    /\ last' = Call("to_buffer", h, 0, 0, odp_packet_to_buffer(h), NoSeg,
                    FALSE)
    /\ UNCHANGED <<pool_free, pkt, seg, mem>>

InChain(h, s) == \E i \in 1..Len(pkt[h].chain) : pkt[h].chain[i] = s

\* the pull that follows a successful push of the same length on the same
\* segment
RoundTrip(op, h, s, n) ==
    /\ last.op = op /\ last.pkt = h /\ last.seg = s /\ last.arg = n
    /\ IF op = "seg_push_head" THEN last.ret # NULL ELSE last.ret # -1

\* primitives that leave the cached packet length as it was
SegOpKeepsLen(op, h, s, n, r, ret, rt) ==
    /\ seg' = [seg EXCEPT ![s] = r.seg]
    /\ pkt' = pkt
    /\ last' = Call(op, h, s, n, ret, seg[s], rt)
    /\ UNCHANGED <<pool_free, mem>>

\* common part of the four primitives: r is the outcome on the segment
SegOp(op, h, s, n, r, ret, rt) ==
    /\ seg' = [seg EXCEPT ![s] = r.seg]
    /\ pkt' = [pkt EXCEPT ![h].len =
                  IF r.ok THEN SumLen(seg', pkt[h].chain) ELSE @]
    /\ last' = Call(op, h, s, n, ret, seg[s], rt)
    /\ UNCHANGED <<pool_free, mem>>

odp_packet_seg_push_head(h, s, n) ==
    /\ h \in Live /\ InChain(h, s)
    /\ LET r == PushHead(seg[s], n)
       IN  SegOp("seg_push_head", h, s, n, r,
                 IF r.ok THEN odp_packet_seg_addr(s) + r.seg.head ELSE NULL,
                 FALSE)

odp_packet_seg_pull_head(h, s, n) ==
    /\ h \in Live /\ InChain(h, s)
    /\ LET r == PullHead(seg[s], n)
       IN  SegOp("seg_pull_head", h, s, n, r,
                 IF r.ok THEN odp_packet_seg_addr(s) + r.seg.head ELSE NULL,
                 RoundTrip("seg_push_head", h, s, n))

odp_packet_seg_push_tail(h, s, n) ==
    /\ h \in Live /\ InChain(h, s)
    /\ LET r == PushTail(odp_packet_seg_size(s), seg[s], n)
       IN  SegOp("seg_push_tail", h, s, n, r,
                 IF r.ok THEN r.seg.len ELSE -1, FALSE)

odp_packet_seg_pull_tail(h, s, n) ==
    /\ h \in Live /\ InChain(h, s)
    /\ LET r == PullTail(seg[s], n)
       IN  SegOp("seg_pull_tail", h, s, n, r,
                 IF r.ok THEN r.seg.len ELSE -1,
                 RoundTrip("seg_push_tail", h, s, n))

\* a copy that is attempted whatever the destination holds
CopyFitsAlways(dst, src) == TRUE

\* copy needs room in the destination for the source's packet length; the
\* destination keeps the default headroom where the data leaves room for it
CopyFits(dst, src) == odp_packet_buf_len(dst) >= odp_packet_get_len(src)

odp_packet_copy(dst, src) ==
    /\ dst \in Live /\ src \in Live /\ dst # src
    /\ IF CopyFits(dst, src)
       THEN LET len == odp_packet_get_len(src)
                hr  == Min(HEADROOM, odp_packet_buf_len(dst) - len)
                lay == ResetLayout(ChainCaps(pkt[dst].chain), hr, len)
            IN  /\ pkt' = [pkt EXCEPT ![dst] =
                              [pkt[src] EXCEPT !.chain = pkt[dst].chain]]
                /\ seg' = WithLayout(seg, pkt[dst].chain, lay)
                /\ mem' = WriteBytes(mem, pkt[dst].chain, lay,
                              PacketBytes(seg, mem, pkt[src].chain))
                /\ last' = Call("copy", dst, 0, src, 0, NoSeg, FALSE)
       ELSE /\ UNCHANGED <<pkt, seg, mem>>
            /\ last' = Call("copy", dst, 0, src, -1, NoSeg, FALSE)
    /\ UNCHANGED pool_free

(* --------------------------- specifications --------------------------- *)

\* allocation, release and the four segment primitives
NextSeg ==
    \/ \E pool \in Pools, len \in LenInputs : odp_packet_alloc(pool, len)
    \/ \E h \in Handles : odp_packet_free(h)
    \/ \E h \in Handles, s \in Blocks, n \in SegLenInputs :
          odp_packet_seg_push_head(h, s, n)
    \/ \E h \in Handles, s \in Blocks, n \in SegLenInputs :
          odp_packet_seg_pull_head(h, s, n)
    \/ \E h \in Handles, s \in Blocks, n \in SegLenInputs :
          odp_packet_seg_push_tail(h, s, n)
    \/ \E h \in Handles, s \in Blocks, n \in SegLenInputs :
          odp_packet_seg_pull_tail(h, s, n)

SpecSeg == Init /\ [][NextSeg]_vars

\* every operation on one packet; the primitives move one byte at a time
\* or ask for more than any segment holds, the offset setters are given an
\* offset of 1 or one at or past the packet length
NextMeta ==
    \/ \E pool \in Pools, len \in LenInputs : odp_packet_alloc(pool, len)
    \/ \E h \in Handles : odp_packet_free(h)
    \/ \E h \in Handles, len \in LenInputs : odp_packet_reset(h, len)
    \/ \E h \in Handles, len \in {0, 2 * SegCap} : odp_packet_set_len(h, len)
    \/ \E h \in Handles, off \in OffInputs :
          /\ off \in {1, odp_packet_get_len(h), odp_packet_get_len(h) + 1}
          /\ odp_packet_l2_offset_set(h, off)
    \/ \E h \in Handles, off \in OffInputs :
          /\ off \in {1, odp_packet_get_len(h), odp_packet_get_len(h) + 1}
          /\ odp_packet_l3_offset_set(h, off)
    \/ \E h \in Handles, off \in OffInputs :
          /\ off \in {1, odp_packet_get_len(h), odp_packet_get_len(h) + 1}
          /\ odp_packet_l4_offset_set(h, off)
    \/ \E h \in Handles : odp_packet_user_ptr_set(h, 1)
    \/ \E h \in Handles : odp_packet_user_u64_set(h, 1)
    \/ \E h \in Handles, s \in Blocks, n \in {1, SegCap + 1} :
          odp_packet_seg_push_head(h, s, n)
    \/ \E h \in Handles, s \in Blocks, n \in {1, SegCap + 1} :
          odp_packet_seg_pull_head(h, s, n)
    \/ \E h \in Handles, s \in Blocks, n \in {1, SegCap + 1} :
          odp_packet_seg_push_tail(h, s, n)
    \/ \E h \in Handles, s \in Blocks, n \in {1, SegCap + 1} :
          odp_packet_seg_pull_tail(h, s, n)

SpecMeta == Init /\ [][NextMeta]_vars

\* two packets of different segmentation and the operations that write the
\* packet length
NextLen ==
    \/ \E pool \in Pools, len \in LenInputs : odp_packet_alloc(pool, len)
    \/ \E h \in Handles : odp_packet_free(h)
    \/ \E h \in Handles, len \in LenInputs : odp_packet_reset(h, len)
    \/ \E h \in Handles : odp_packet_set_len(h, 0)
    \/ \E h \in Handles, s \in Blocks, n \in {1, SegCap + 1} :
          odp_packet_seg_push_head(h, s, n)
    \/ \E h \in Handles, s \in Blocks, n \in {1, SegCap + 1} :
          odp_packet_seg_pull_head(h, s, n)
    \/ \E h \in Handles, s \in Blocks, n \in {1, SegCap + 1} :
          odp_packet_seg_push_tail(h, s, n)
    \/ \E h \in Handles, s \in Blocks, n \in {1, SegCap + 1} :
          odp_packet_seg_pull_tail(h, s, n)
    \/ \E dst \in Handles, src \in Handles : odp_packet_copy(dst, src)

SpecLen == InitAll /\ [][NextLen]_vars

\* no copy has stored a byte yet
Pristine == mem = AddrMem

\* two packets of different segmentation over storage of distinct bytes,
\* up to the first copy that stores bytes: the pushes grow the segments
\* one byte at a time, one offset and the context are given a value that
\* is not the default, and each packet is copied into the other
NextCopy ==
    \/ \E pool \in Pools, len \in LenInputs :
          Pristine /\ odp_packet_alloc(pool, len)
    \/ \E h \in Handles : Pristine /\ odp_packet_free(h)
    \/ \E h \in Handles : Pristine /\ odp_packet_l3_offset_set(h, 1)
    \/ \E h \in Handles : Pristine /\ odp_packet_user_ptr_set(h, 1)
    \/ \E h \in Handles, s \in Blocks :
          Pristine /\ odp_packet_seg_push_head(h, s, 1)
    \/ \E h \in Handles, s \in Blocks :
          Pristine /\ odp_packet_seg_push_tail(h, s, 1)
    \/ \E dst \in Handles, src \in Handles :
          Pristine /\ odp_packet_copy(dst, src)

SpecCopy == InitCopy /\ [][NextCopy]_vars

\* the user context written through both setters, with two values, between
\* calls that leave it alone and calls that clear it
NextCtx ==
    \/ \E pool \in Pools : odp_packet_alloc(pool, 1)
    \/ \E h \in Handles : odp_packet_free(h)
    \/ \E h \in Handles : odp_packet_reset(h, 1)
    \/ \E h \in Handles : odp_packet_set_len(h, 0)
    \/ \E h \in Handles : odp_packet_l3_offset_set(h, 0)
    \/ \E h \in Handles, ctx \in CtxInputs : odp_packet_user_ptr_set(h, ctx)
    \/ \E h \in Handles, ctx \in CtxInputs : odp_packet_user_u64_set(h, ctx)
    \/ \E h \in Handles, s \in Blocks : odp_packet_seg_push_tail(h, s, 1)
    \/ \E h \in Handles, s \in Blocks : odp_packet_seg_pull_tail(h, s, 1)

SpecCtx == Init /\ [][NextCtx]_vars

\* every kind of call on two packets, failing calls included: lengths are
\* 1 or more than any packet holds, the primitives move one byte
NextLife ==
    \/ \E pool \in Pools, len \in {1, 2 * SegCap} :
          odp_packet_alloc(pool, len)
    \/ \E h \in Handles : odp_packet_free(h)
    \/ \E h \in Handles, len \in {0, 2 * SegCap} : odp_packet_reset(h, len)
    \/ \E h \in Handles : odp_packet_set_len(h, 0)
    \/ \E h \in Handles : odp_packet_l3_offset_set(h, 0)
    \/ \E h \in Handles, s \in Blocks : odp_packet_seg_push_head(h, s, 1)
    \/ \E h \in Handles, s \in Blocks : odp_packet_seg_push_tail(h, s, 1)
    \/ \E h \in Handles, s \in Blocks : odp_packet_seg_pull_tail(h, s, 1)
    \/ \E dst \in Handles, src \in Handles : odp_packet_copy(dst, src)
    \/ \E h \in Handles : ToBuffer(h)
    \/ \E buf \in BufferHandles : FromBuffer(buf)

SpecLife == InitAll /\ [][NextLife]_vars

(* ============================ properties ============================== *)

SegOps == {"seg_push_head", "seg_pull_head", "seg_push_tail", "seg_pull_tail"}

HeadOps == {"seg_push_head", "seg_pull_head"}

Failed(c) == IF c.op \in HeadOps THEN c.ret = NULL ELSE c.ret = -1

\* the documented upper limit of len for primitive op on a segment in state s
Limit(op, cap, s) ==
    CASE op = "seg_push_head" -> s.head
      [] op = "seg_push_tail" -> SegTailroom(cap, s)
      [] OTHER                -> s.len

(* C1: after a successful push or pull with len inside the documented     *)
(* range, on a segment that held at least one byte, the segment satisfies *)
(* head_offset + data_len <= capacity and data_len >= 1.                  *)
C1_NoEmptySegment ==
    (last.op \in SegOps /\ ~Failed(last) /\ last.pre.len >= 1
        /\ last.arg <= Limit(last.op, odp_packet_seg_size(last.seg), last.pre))
    => /\ seg[last.seg].head + seg[last.seg].len
              <= odp_packet_seg_size(last.seg)
       /\ seg[last.seg].len >= 1

(* C2: a primitive called with len above its limit (seg_headroom,         *)
(* seg_data_len, seg_tailroom, seg_data_len) reports failure, NULL for    *)
(* the head operations and -1 for the tail operations, and changes no     *)
(* segment, no packet metadata and no pool.                               *)
C2_BoundaryRejection ==
    [][(last'.op \in SegOps
          /\ last'.arg > Limit(last'.op, odp_packet_seg_size(last'.seg),
                               seg[last'.seg]))
       => /\ Failed(last')
          /\ seg' = seg /\ pkt' = pkt /\ pool_free' = pool_free]_vars

C2_Witness ==
    /\ last.op = "seg_pull_tail" /\ last.ret = -1
    /\ seg[last.seg].len >= 1
    /\ last.arg = seg[last.seg].len + 1
    /\ odp_packet_seg_count(last.pkt) = 2

(* C8: a packet returned by a successful alloc(pool, len) is valid, has   *)
(* get_len = len, the default headroom in segment 0, default metadata     *)
(* (l2 = 0, l3/l4 unset, context cleared) and, when it has one segment,   *)
(* seg_data_len = len and seg_tailroom = capacity - headroom - len; with  *)
(* capacity 228, headroom 64 and len 100 that is 64/100/64, and           *)
(* push_head by 20 then gives data_len 120 and headroom 44.               *)
C8_AllocState ==
    /\ (last.op = "alloc" /\ last.ret # ODP_PACKET_INVALID) =>
         LET h  == last.ret
             s0 == pkt[h].chain[1]
         IN  /\ odp_packet_is_valid(h) = 1
             /\ odp_packet_get_len(h) = last.arg
             /\ SumLen(seg, pkt[h].chain) = last.arg
             /\ odp_packet_seg_headroom(seg, s0) = HEADROOM
             /\ odp_packet_seg_count(h) = 1 =>
                   /\ odp_packet_seg_data_len(seg, s0) = last.arg
                   /\ odp_packet_seg_tailroom(seg, s0)
                          = odp_packet_seg_size(s0) - HEADROOM - last.arg
             /\ odp_packet_l2_offset(h) = 0
             /\ odp_packet_l3_offset(h) = ODP_PACKET_OFFSET_INVALID
             /\ odp_packet_l4_offset(h) = ODP_PACKET_OFFSET_INVALID
             /\ odp_packet_user_u64(h) = 0
             \* what reset(len) writes
             /\ pkt[h] = DefaultMeta(pkt[h].chain, last.arg)
             /\ \A i \in 1..Len(pkt[h].chain) :
                   seg[pkt[h].chain[i]]
                      = ResetLayout(ChainCaps(pkt[h].chain), HEADROOM,
                                    last.arg)[i]
    /\ LET s == ResetLayout(<<228>>, 64, 100)[1]
           r == PushHead(s, 20)
       IN  /\ s = [head |-> 64, len |-> 100]
           /\ SegTailroom(228, s) = 64
           /\ r.ok /\ r.seg = [head |-> 44, len |-> 120]

C8_Witness ==
    /\ last.op = "alloc" /\ last.ret # ODP_PACKET_INVALID
    /\ last.arg >= 1
    /\ odp_packet_seg_count(last.ret) = 1

(* C9: seg_pull_head(s, n) right after a successful seg_push_head(s, n)   *)
(* succeeds and restores the headroom, the data length and the data       *)
(* address the segment had before the push.                               *)
C9_HeadRoundTrip ==
    [][(last'.op = "seg_pull_head" /\ last'.rt) =>
         /\ last'.ret # NULL
         /\ seg'[last'.seg] = last.pre
         /\ last'.ret = odp_packet_seg_addr(last'.seg) + last.pre.head
         /\ odp_packet_seg_data(seg', last'.seg)
               = odp_packet_seg_addr(last'.seg) + last.pre.head]_vars

C9_Witness ==
    /\ last.op = "seg_pull_head" /\ last.rt /\ last.ret # NULL
    /\ last.arg >= 1

(* C10: a successful seg_push_tail(s, n) returns the old data length plus *)
(* n, and seg_pull_tail(s, n) right after it succeeds and returns the     *)
(* original data length; the headroom is the same throughout.             *)
C10_TailRoundTrip ==
    [][/\ (last'.op = "seg_push_tail" /\ last'.ret # -1) =>
            /\ last'.ret = seg[last'.seg].len + last'.arg
            /\ seg'[last'.seg].len = last'.ret
            /\ seg'[last'.seg].head = seg[last'.seg].head
       /\ (last'.op = "seg_pull_tail" /\ last'.rt) =>
            /\ last'.ret = last.pre.len
            /\ seg'[last'.seg] = last.pre
            /\ seg[last'.seg].head = last.pre.head]_vars

C10_Witness ==
    /\ last.op = "seg_pull_tail" /\ last.rt /\ last.ret # -1
    /\ last.arg >= 1

Consistent(p, sg, h) == p[h].len = SumLen(sg, p[h].chain)

\* the calls that write the packet length from the segments
LenWriters == SegOps \cup {"alloc", "reset", "copy"}

Succeeded(c) ==
    CASE c.op \in HeadOps          -> c.ret # NULL
      [] c.op = "seg_push_tail"    -> c.ret # -1
      [] c.op = "seg_pull_tail"    -> c.ret # -1
      [] c.op = "alloc"            -> c.ret # ODP_PACKET_INVALID
      [] OTHER                     -> c.ret = 0

(* C3 as claimed: in every reachable state the cached length of a valid   *)
(* packet equals the sum of seg_data_len over its segments, set_len       *)
(* included.                                                              *)
C3_LenIsSumAlways == \A h \in Live : Consistent(pkt, seg, h)

(* C3 amended: get_len equals the sum of seg_data_len after alloc, reset, *)
(* a successful push or pull and a successful copy into the packet, and   *)
(* no call other than set_len on that packet breaks the equality;         *)
(* set_len(n) stores n and leaves the segments alone.                     *)
C3_LenIsSumUnlessSetLen ==
    [][\A h \in Handles : pkt'[h].valid =>
         /\ (last'.op \in LenWriters /\ Succeeded(last') /\ last'.pkt = h)
               => Consistent(pkt', seg', h)
         /\ (pkt[h].valid /\ Consistent(pkt, seg, h)
               /\ ~(last'.op = "set_len" /\ last'.pkt = h))
               => Consistent(pkt', seg', h)
         /\ (last'.op = "set_len" /\ last'.pkt = h)
               => /\ odp_packet_get_len(h)' = last'.arg
                  /\ seg' = seg]_vars

C3_Witness ==
    /\ last.op = "seg_pull_tail" /\ last.ret # -1 /\ last.arg >= 1
    /\ odp_packet_seg_count(last.pkt) = 2
    /\ odp_packet_get_len(last.pkt) >= 2
    /\ Consistent(pkt, seg, last.pkt)

Offset(p, h, layer) == p[h][layer]

(* C4 as claimed, for every stored offset but l2's default 0: the offset  *)
(* is the unset sentinel or lies in [0, get_len).                         *)
C4_OffsetsInRange ==
    \A h \in Live : \A layer \in Layers :
        \/ Offset(pkt, h, layer) = ODP_PACKET_OFFSET_INVALID
        \/ Offset(pkt, h, layer) < odp_packet_get_len(h)
        \/ layer = "l2" /\ Offset(pkt, h, layer) = 0

(* C4 amended: an offset is checked when it is stored and not afterwards: *)
(* whenever a call changes a stored offset, the new value is the unset    *)
(* sentinel, l2's default 0, a value in [0, get_len) of the packet as it  *)
(* is after the call, or the source packet's offset taken over by copy;   *)
(* set_len and the primitives leave the stored offsets as they are.       *)
C4_OffsetsCheckedWhenStored ==
    [][\A h \in Handles : \A layer \in Layers :
         /\ (pkt'[h].valid
               /\ (~pkt[h].valid
                     \/ Offset(pkt', h, layer) # Offset(pkt, h, layer)))
            => \/ Offset(pkt', h, layer) = ODP_PACKET_OFFSET_INVALID
               \/ Offset(pkt', h, layer) < pkt'[h].len
               \/ layer = "l2" /\ Offset(pkt', h, layer) = 0
               \/ /\ last'.op = "copy" /\ last'.pkt = h
                  /\ Offset(pkt', h, layer) = Offset(pkt, last'.arg, layer)
         /\ (pkt[h].valid /\ last'.op \in SegOps \cup {"set_len"})
            => Offset(pkt', h, layer) = Offset(pkt, h, layer)]_vars

\* an offset stored in range and left behind by a pull
C4_Witness ==
    /\ last.op = "seg_pull_tail" /\ last.ret # -1
    /\ odp_packet_l3_offset(last.pkt) = 1
    /\ odp_packet_get_len(last.pkt) = 1

OffsetSetters == {"l2_offset_set", "l3_offset_set", "l4_offset_set"}

LayerOf(op) ==
    CASE op = "l2_offset_set" -> "l2"
      [] op = "l3_offset_set" -> "l3"
      [] OTHER                -> "l4"

(* C5: L_offset_set(pkt, off) returns 0 exactly when off < get_len(pkt),  *)
(* and then L_offset(pkt) = off and nothing else of the packet changes;   *)
(* otherwise it returns non-zero and the packet is unchanged.             *)
C5_OffsetSetter ==
    [][last'.op \in OffsetSetters =>
         LET h == last'.pkt
             layer == LayerOf(last'.op)
         IN  /\ (last'.ret = 0) <=> (last'.arg < odp_packet_get_len(h))
             /\ last'.ret = 0 =>
                  /\ Offset(pkt', h, layer) = last'.arg
                  /\ pkt' = [pkt EXCEPT ![h][layer] = last'.arg]
             /\ last'.ret # 0 => pkt' = pkt
             /\ seg' = seg /\ pool_free' = pool_free]_vars

\* the setter refused an offset equal to the packet length and the offset
\* is still unset
C5_Witness ==
    /\ last.op = "l3_offset_set" /\ last.ret # 0
    /\ last.arg = odp_packet_get_len(last.pkt)
    /\ last.arg >= 1
    /\ odp_packet_l3_offset(last.pkt) = ODP_PACKET_OFFSET_INVALID

(* C6: a successful reset(pkt, len) leaves get_len = len, l2_offset = 0,  *)
(* l3/l4 offsets unset and the user context cleared; the packet stays     *)
(* valid, keeps its handle and its chain, and no pool changes.            *)
C6_ResetDefaults ==
    [][(last'.op = "reset" /\ last'.ret = 0) =>
         LET h == last'.pkt
         IN  /\ pkt[h].valid /\ pkt'[h].valid
             /\ pkt'[h].len = last'.arg
             /\ pkt'[h].l2 = 0
             /\ pkt'[h].l3 = ODP_PACKET_OFFSET_INVALID
             /\ pkt'[h].l4 = ODP_PACKET_OFFSET_INVALID
             /\ pkt'[h].ctx = 0
             /\ pkt'[h].chain = pkt[h].chain
             /\ \A g \in Handles \ {h} : pkt'[g] = pkt[g]
             /\ pool_free' = pool_free]_vars

C6_Witness ==
    /\ last.op = "reset" /\ last.ret = 0 /\ last.arg >= 1
    /\ odp_packet_seg_count(last.pkt) = 2

(* C7: reset(pkt, len) succeeds exactly when len is less than the total   *)
(* buffer length of the packet minus the default headroom; otherwise it   *)
(* returns non-zero and length, offsets, context and every segment are    *)
(* as before.                                                             *)
C7_ResetRejects ==
    [][last'.op = "reset" =>
         LET h == last'.pkt
         IN  /\ (last'.ret = 0)
                   <=> (last'.arg < odp_packet_buf_len(h) - HEADROOM)
             /\ last'.ret # 0 =>
                   pkt' = pkt /\ seg' = seg /\ pool_free' = pool_free]_vars

\* reset refused a length equal to capacity minus headroom on a packet
\* with offsets and context set
C7_Witness ==
    /\ last.op = "reset" /\ last.ret # 0
    /\ last.arg = odp_packet_buf_len(last.pkt) - HEADROOM
    /\ odp_packet_seg_count(last.pkt) = 2
    /\ odp_packet_l3_offset(last.pkt) = 1
    /\ odp_packet_user_u64(last.pkt) = 1

C12_CopyRejects ==
    [][(last'.op = "copy"
          /\ odp_packet_buf_len(last'.pkt) < odp_packet_get_len(last'.arg))
       => /\ last'.ret # 0
          /\ pkt' = pkt /\ seg' = seg /\ mem' = mem
          /\ pool_free' = pool_free]_vars

\* a refused copy into a packet that holds data and has offset and context
\* set
C12_Witness ==
    /\ last.op = "copy" /\ last.ret # 0
    /\ odp_packet_get_len(last.pkt) >= 1
    /\ odp_packet_l3_offset(last.pkt) = 1
    /\ odp_packet_user_ptr(last.pkt) = 1
    /\ odp_packet_get_len(last.arg) = odp_packet_buf_len(last.pkt) + 1

CtxSetters == {"user_ptr_set", "user_u64_set"}

\* the calls that write the user context: the setters, and alloc, reset,
\* free and copy, which initialise, clear or overwrite it
CtxWriters == CtxSetters \cup {"alloc", "reset", "free", "copy"}

(* C14: the user context is one slot and the last write wins: right after *)
(* user_ptr_set(X) or user_u64_set(X), whichever came before, both        *)
(* user_ptr and user_u64 return X, the value last written, and nothing    *)
(* else of the packet changes; the calls that are not context writers     *)
(* leave the value both accessors return as it was.                       *)
C14_LastWriteWins ==
    [][\A h \in Handles :
         /\ (last'.op \in CtxSetters /\ last'.pkt = h) =>
               /\ odp_packet_user_ptr(h)' = last'.arg
               /\ odp_packet_user_u64(h)' = last'.arg
               /\ pkt' = [pkt EXCEPT ![h].ctx = last'.arg]
               /\ seg' = seg /\ pool_free' = pool_free
         /\ (pkt[h].valid /\ last'.op \notin CtxWriters) =>
               /\ odp_packet_user_ptr(h)' = odp_packet_user_ptr(h)
               /\ odp_packet_user_u64(h)' = odp_packet_user_u64(h)]_vars

\* user_u64_set(2) on a two-segment packet whose slot held 1
C14_Witness ==
    /\ last.op = "user_u64_set" /\ last.arg = 2 /\ last.rt
    /\ odp_packet_user_ptr(last.pkt) = 2
    /\ odp_packet_user_u64(last.pkt) = 2
    /\ odp_packet_seg_count(last.pkt) = 2

ChainBlocks(p, h) == {p[h].chain[i] : i \in 1..Len(p[h].chain)}

(* C15: a packet handle that is valid stays valid over every call that is *)
(* not free of that packet, failed calls included; the handle a           *)
(* successful alloc returns is valid; after free(pkt) is_valid(pkt) is 0  *)
(* and every block of its chain is in the free set of the pool it came    *)
(* from; is_valid(ODP_PACKET_INVALID) is 0 throughout.                    *)
C15_ValidUntilFree ==
    [][/\ \A h \in Handles :
            (odp_packet_is_valid(h) = 1
                /\ ~(last'.op = "free" /\ last'.pkt = h))
            => odp_packet_is_valid(h)' = 1
       /\ (last'.op = "alloc" /\ last'.ret # ODP_PACKET_INVALID)
            => IsValidIn(pkt', last'.ret) = 1
       /\ last'.op = "free" =>
            /\ odp_packet_is_valid(last'.pkt) = 1
            /\ IsValidIn(pkt', last'.pkt) = 0
            /\ \A b \in ChainBlocks(pkt, last'.pkt) :
                  b \in pool_free'[PoolOf(b)]
       /\ odp_packet_is_valid(ODP_PACKET_INVALID) = 0
       /\ odp_packet_is_valid(ODP_PACKET_INVALID)' = 0]_vars

\* a packet that is still valid after a refused reset, next to another
\* valid packet
C15_Witness ==
    /\ last.op = "reset" /\ last.ret # 0
    /\ odp_packet_is_valid(last.pkt) = 1
    /\ Cardinality(Live) = 2

(* C16: alloc on a pool that has no free storage for a packet, or that is *)
(* not a packet pool, returns ODP_PACKET_INVALID and changes nothing: the *)
(* free sets of the pools, every packet, every segment, every byte.       *)
C16_AllocRejects ==
    [][\A pool \in Pools, len \in 0..(2 * SegCap) :
         (/\ odp_packet_alloc(pool, len)
          /\ \/ ~PoolIsPacket(pool)
             \/ Cardinality(pool_free[pool]) < PoolSegs(pool))
         => /\ last'.op = "alloc"
            /\ last'.ret = ODP_PACKET_INVALID
            /\ pool_free' = pool_free
            /\ pkt' = pkt /\ seg' = seg /\ mem' = mem]_vars

\* an alloc of a length that fits, refused while both packet pools are
\* exhausted and their packets live
C16_Witness ==
    /\ last.op = "alloc" /\ last.ret = ODP_PACKET_INVALID
    /\ pool_free["p1"] = {} /\ pool_free["p2"] = {}
    /\ last.arg = 1
    /\ Cardinality(Live) = 2

\* no block in two live chains, none both free and in a live chain
Exclusive ==
    /\ \A g \in Live : \A h \in Live \ {g} :
          ChainBlocks(pkt, g) \cap ChainBlocks(pkt, h) = {}
    /\ \A h \in Live : \A pool \in Pools :
          ChainBlocks(pkt, h) \cap pool_free[pool] = {}
    /\ \A h \in Live : \A i \in 1..Len(pkt[h].chain) :
          \A j \in 1..Len(pkt[h].chain) :
              pkt[h].chain[i] = pkt[h].chain[j] => i = j

RECURSIVE Prefix(_, _, _)
Prefix(sg, chain, k) ==
    IF k = 0 THEN 0 ELSE sg[chain[k]].len + Prefix(sg, chain, k - 1)

LayerPtrOf(h, layer) ==
    CASE layer = "l2" -> odp_packet_l2_ptr(h)
      [] layer = "l3" -> odp_packet_l3_ptr(h)
      [] OTHER        -> odp_packet_l4_ptr(h)

\* a stored offset below the segment sum resolves into the one segment k
\* whose prefix sums bracket it, to seg_data(k) plus the residual, with the
\* rest of segment k as remaining length; unset l3/l4 resolve to NULL
LayerPointersResolve ==
    \A h \in Live : \A layer \in Layers :
        LET off   == Offset(pkt, h, layer)
            chain == pkt[h].chain
            r     == LayerPtrOf(h, layer)
            In(k) == /\ Prefix(seg, chain, k - 1) <= off
                     /\ off < Prefix(seg, chain, k)
        IN  /\ (off # ODP_PACKET_OFFSET_INVALID
                  /\ off < SumLen(seg, chain)) =>
                /\ \E k \in 1..Len(chain) : In(k)
                /\ \A k \in 1..Len(chain) : In(k) =>
                      LET res == off - Prefix(seg, chain, k - 1)
                      IN  /\ \A j \in 1..Len(chain) : In(j) => j = k
                          /\ r.ptr = odp_packet_seg_data(seg, chain[k]) + res
                          /\ r.rem = odp_packet_seg_data_len(seg, chain[k])
                                        - res
                          /\ r.rem >= 1
            /\ (layer # "l2" /\ off = ODP_PACKET_OFFSET_INVALID) =>
                  r.ptr = NULL

\* one segment of capacity 228 holding a packet of 60 bytes after a
\* headroom of 64, at address 1000: offset 14 resolves to data + 14 with 46
\* bytes left
LayerPtrExample ==
    LET s == ResetLayout(<<228>>, 64, 60)[1]
        r == PtrWalk(<<[data |-> 1000 + s.head, len |-> s.len]>>, 14)
    IN  /\ s.len = 60
        /\ r.ptr = 1000 + s.head + 14
        /\ r.rem = 46

(* C18: a set layer offset resolves to the unique segment k whose prefix  *)
(* sums of data lengths bracket it, as seg_data(k) plus the residual,     *)
(* with the bytes left in segment k as remaining length; l3_ptr and       *)
(* l4_ptr are NULL when the offset is unset; length 60 with l3 offset 14  *)
(* gives data() + 14 and 46 remaining; and l2_ptr with the default l2     *)
(* offset 0 is data(), here for a packet that holds data, right after a   *)
(* successful push or pull, with len inside the documented range, on a    *)
(* segment that held data, every other segment of the packet holding data *)
(* too.                                                                   *)
C18_LayerPointers ==
    /\ LayerPointersResolve
    /\ LayerPtrExample
    /\ (/\ last.op \in SegOps /\ ~Failed(last) /\ last.pre.len >= 1
        /\ last.arg <= Limit(last.op, odp_packet_seg_size(last.seg),
                             last.pre)
        /\ \A b \in Blocks :
              (InChain(last.pkt, b) /\ b # last.seg) => seg[b].len >= 1
        /\ odp_packet_l2_offset(last.pkt) = 0
        /\ odp_packet_get_len(last.pkt) >= 1)
       => odp_packet_l2_ptr(last.pkt).ptr = odp_packet_data(last.pkt)

(* C19: a successful push or pull on segment s of packet p changes only   *)
(* the data start and the data length of s: every other segment, the      *)
(* chain and seg_count, the total capacity, the l2/l3/l4 offsets and the  *)
(* user context of p, every other packet, the pools and the stored bytes  *)
(* are as before; the head primitives leave the tailroom of s unchanged,  *)
(* the tail primitives its headroom and data address.                     *)
C19_SegmentLocal ==
    [][\A h \in Handles : \A s \in Blocks :
         (last'.op \in SegOps /\ ~Failed(last')
             /\ last'.pkt = h /\ last'.seg = s) =>
           /\ \A b \in Blocks \ {s} : seg'[b] = seg[b]
           /\ pkt'[h].chain = pkt[h].chain
           /\ odp_packet_seg_count(h)' = odp_packet_seg_count(h)
           /\ odp_packet_buf_len(h)' = odp_packet_buf_len(h)
           /\ odp_packet_l2_offset(h)' = odp_packet_l2_offset(h)
           /\ odp_packet_l3_offset(h)' = odp_packet_l3_offset(h)
           /\ odp_packet_l4_offset(h)' = odp_packet_l4_offset(h)
           /\ odp_packet_user_u64(h)' = odp_packet_user_u64(h)
           /\ odp_packet_is_valid(h)' = 1
           /\ pkt' = [pkt EXCEPT ![h].len = pkt'[h].len]
           /\ pool_free' = pool_free /\ mem' = mem
           /\ last'.op \in HeadOps =>
                 odp_packet_seg_tailroom(seg', s)
                    = odp_packet_seg_tailroom(seg, s)
           /\ last'.op \notin HeadOps =>
                 /\ odp_packet_seg_headroom(seg', s)
                       = odp_packet_seg_headroom(seg, s)
                 /\ odp_packet_seg_data(seg', s)
                       = odp_packet_seg_data(seg, s)]_vars

\* a push of one byte at the head of the second segment of a packet with
\* an offset and the context set
C19_Witness ==
    /\ last.op = "seg_push_head" /\ last.ret # NULL /\ last.arg = 1
    /\ odp_packet_seg_count(last.pkt) = 2
    /\ last.seg = pkt[last.pkt].chain[2]
    /\ odp_packet_l3_offset(last.pkt) = 1
    /\ odp_packet_user_u64(last.pkt) = 1

\* the segments met by following odp_packet_seg_next from s, at most fuel
\* of them
RECURSIVE SegWalk(_, _, _)
SegWalk(h, s, fuel) ==
    IF s = ODP_PACKET_SEG_INVALID \/ fuel = 0 THEN <<>>
    ELSE <<s>> \o SegWalk(h, odp_packet_seg_next(h, s), fuel - 1)

IndexInputs == (0 - 2)..(Cardinality(Blocks) + 1)

(* C20: for a valid packet of n = seg_count >= 1 segments, seg(i) is a    *)
(* segment handle exactly for 0 <= i <= n-1 and ODP_PACKET_SEG_INVALID    *)
(* for every other index, distinct indices give distinct segments,        *)
(* seg_next(seg(i)) = seg(i+1) below n-1 and seg_next(seg(n-1)) is        *)
(* ODP_PACKET_SEG_INVALID, the walk from seg(0) visits seg(0) ...         *)
(* seg(n-1) in order and ends after n steps, and is_segmented is non-zero *)
(* exactly when n > 1.                                                    *)
C20_Traversal ==
    \A h \in Live :
        LET n == odp_packet_seg_count(h)
            w == SegWalk(h, odp_packet_seg(h, 0), Cardinality(Blocks) + 1)
        IN  /\ n >= 1
            /\ \A i \in IndexInputs :
                  /\ (odp_packet_seg(h, i) # ODP_PACKET_SEG_INVALID)
                        <=> (0 <= i /\ i <= n - 1)
                  /\ (0 <= i /\ i <= n - 1) =>
                        /\ odp_packet_seg(h, i) \in Blocks
                        /\ InChain(h, odp_packet_seg(h, i))
                  /\ (0 <= i /\ i < n - 1) =>
                        odp_packet_seg_next(h, odp_packet_seg(h, i))
                           = odp_packet_seg(h, i + 1)
                  /\ \A j \in IndexInputs :
                        (0 <= i /\ i < j /\ j <= n - 1) =>
                           odp_packet_seg(h, i) # odp_packet_seg(h, j)
            /\ odp_packet_seg_next(h, odp_packet_seg(h, n - 1))
                  = ODP_PACKET_SEG_INVALID
            /\ Len(w) = n
            /\ \A i \in 1..Len(w) : w[i] = odp_packet_seg(h, i - 1)
            /\ (odp_packet_is_segmented(h) # 0) <=> (n > 1)

\* a two-segment packet, walked in two steps, after a pull
C20_Witness ==
    /\ last.op = "seg_pull_tail" /\ last.ret # -1
    /\ last.pkt \in Live
    /\ odp_packet_seg_count(last.pkt) = 2
    /\ odp_packet_is_segmented(last.pkt) = 1
    /\ Len(SegWalk(last.pkt, odp_packet_seg(last.pkt, 0),
                   Cardinality(Blocks) + 1)) = 2

====
